---- MODULE Spec2Model ----
(***************************************************************************)
(* es-node-keeper: a watchdog that restarts local Elasticsearch services   *)
(* whose node is not an active member of the cluster.                      *)
(*                                                                         *)
(* The repository holds three revisions of the same program:               *)
(*   "0.10"  src/es-node-keeper.go lines 1-265                             *)
(*   "0.13"  src/unnamed/part_000                                          *)
(*   "0.19"  src/es-node-keeper.go lines 267-625                           *)
(* The model is the goroutine nodeKeeper of each revision, one action per  *)
(* blocking call of the loop.  Strings are sequences of one-character      *)
(* strings so that strings.ToLower is computed, not assumed.               *)
(***************************************************************************)
EXTENDS Integers, Sequences, FiniteSets, TLC

VARIABLES
    version,                  \* revision of the program that is running
    dryRun,                   \* flag --dry-run
    noRestartTime,            \* flag --no-restart-time (minutes; 0.10, 0.13)
    restartExclusionPeriod,   \* flag --restart-exclusion-period (seconds; 0.19)
    localNodes,               \* service -> [instance, lastRestartTimestamp]
    pc,                       \* position of the goroutine in nodeKeeper
    activeNodes,              \* result of getActiveNodes in this tick
    invalidNodes,             \* result of getInvalidNodes in this tick
    idx,                      \* position of the range loop in invalidNodes
    service,                  \* loop variable of the range loop
    now,                      \* local now of the iteration
    clusterStatus,            \* local clusterStatus of the iteration
    clusterRoutingAllocation, \* local clusterRoutingAllocation of the iteration
    clock,                    \* wall clock, seconds (time.Now().Unix())
    fetchOk,                  \* history: getActiveNodes succeeded in this tick
    outcomes,                 \* history: service -> what this tick logged for it
    queried,                  \* history: service -> systemctl show ran in this tick
    sinceFetch,               \* history: "start", "fetched" or "slept"
    tsErr,                    \* local err of the last-activation query of the iteration
    usedCode,                 \* history: HTTP status of the response whose result the
                              \* loop holds for its next step, 0 if none
    lastOk,                   \* history: service -> now of its last successful restart, -1 if none
    prevFailed                \* history: the services whose restart failed in the previous tick
                              \* and whose iteration of this tick has not ended yet

vars == <<version, dryRun, noRestartTime, restartExclusionPeriod, localNodes, pc,
          activeNodes, invalidNodes, idx, service, now, clusterStatus,
          clusterRoutingAllocation, clock, fetchOk, outcomes, queried,
          sinceFetch, tsErr, usedCode, lastOk, prevFailed>>

\* the flags, fixed once kingpin.Parse() has run
flags == <<version, dryRun, noRestartTime, restartExclusionPeriod>>

----------------------------------------------------------------------------
(* Bounds of the model *)

\* number of sleeps the model follows
MaxTicks == 2
\* wall clock when the program starts
StartClock == 300
\* oldest activation the host reports, in sleeps
MaxHostAge == 3

(* Program constants *)

\* const interval int = 30
interval == 30

Versions == {"0.10", "0.13", "0.19"}

\* values tried for --no-restart-time (minutes) and --restart-exclusion-period (seconds)
NoRestartTimes == {1, 10}
RestartExclusionPeriods == {60, 600}

----------------------------------------------------------------------------
(* Strings *)

UpperChars == <<"A", "B", "C", "D", "E", "F", "G", "H", "I", "J", "K", "L", "M",
                "N", "O", "P", "Q", "R", "S", "T", "U", "V", "W", "X", "Y", "Z">>
LowerChars == <<"a", "b", "c", "d", "e", "f", "g", "h", "i", "j", "k", "l", "m",
                "n", "o", "p", "q", "r", "s", "t", "u", "v", "w", "x", "y", "z">>

ToLowerChar(c) ==
    IF \E i \in DOMAIN UpperChars : UpperChars[i] = c
    THEN LowerChars[CHOOSE i \in DOMAIN UpperChars : UpperChars[i] = c]
    ELSE c

\* strings.ToLower
ToLower(s) == [i \in DOMAIN s |-> ToLowerChar(s[i])]

StrRed == <<"r", "e", "d">>
StrAll == <<"a", "l", "l">>
StrEmpty == <<>>

\* "status" values the health endpoint answers with
StatusValues == { <<"g", "r", "e", "e", "n">>,
                  <<"y", "e", "l", "l", "o", "w">>,
                  StrRed,
                  <<"R", "E", "D">> }

\* transient.cluster.routing.allocation.enable; empty when the setting is absent
AllocationValues == { StrAll,
                      <<"A", "l", "l">>,
                      <<"p", "r", "i", "m", "a", "r", "i", "e", "s">>,
                      StrEmpty }

\* a local that has not been assigned in this iteration
Unset == <<"?">>

----------------------------------------------------------------------------
(* Configuration *)

Instances == {"a", "b"}

\* LocalNodes.Nodes of the configuration files tried
Configs == { <<>>,
             <<[instance |-> "a", service |-> "s1"]>>,
             <<[instance |-> "a", service |-> "s1"], [instance |-> "b", service |-> "s2"]>>,
             <<[instance |-> "a", service |-> "s1"], [instance |-> "a", service |-> "s2"]>> }

Max(S) == CHOOSE x \in S : \A y \in S : y <= x

\* mutation of localNodesToMap: the services are loaded as if restarted at startup
localNodesToMapStamped(nodes) ==
    [s \in {nodes[i].service : i \in DOMAIN nodes} |->
        [instance |-> nodes[Max({i \in DOMAIN nodes : nodes[i].service = s})].instance,
         lastRestartTimestamp |-> StartClock]]

\* every service is loaded with timestamp 0; of two entries with the same
\* service name the later one wins
localNodesToMap(nodes) ==
    [s \in {nodes[i].service : i \in DOMAIN nodes} |->
        [instance |-> nodes[Max({i \in DOMAIN nodes : nodes[i].service = s})].instance,
         lastRestartTimestamp |-> 0]]

Services == DOMAIN localNodes

\* the minimal time between restarts, in seconds
ExclusionPeriod ==
    IF version = "0.19" THEN restartExclusionPeriod ELSE noRestartTime * 60

Init ==
    /\ version \in Versions
    /\ dryRun \in (IF version = "0.10" THEN {FALSE} ELSE BOOLEAN)
    /\ noRestartTime \in (IF version = "0.19" THEN {0} ELSE NoRestartTimes)
    /\ restartExclusionPeriod \in (IF version = "0.19" THEN RestartExclusionPeriods ELSE {0})
    /\ localNodes \in {localNodesToMap(c) : c \in Configs}
    /\ pc = "getActiveNodes"
    /\ activeNodes = {}
    /\ invalidNodes = <<>>
    /\ idx = 0
    /\ service = ""
    /\ now = 0
    /\ clusterStatus = Unset
    /\ clusterRoutingAllocation = Unset
    /\ clock = StartClock
    /\ fetchOk = FALSE
    /\ outcomes = [s \in DOMAIN localNodes |-> "none"]
    /\ queried = [s \in DOMAIN localNodes |-> FALSE]
    /\ sinceFetch = "start"
    /\ tsErr = FALSE
    /\ usedCode = 0
    /\ lastOk = [s \in DOMAIN localNodes |-> -1]
    /\ prevFailed = {}

----------------------------------------------------------------------------
(* Helpers of the loop *)

\* all the orders in which a range over a Go map can visit the set S
Orderings(S) ==
    {q \in [1..Cardinality(S) -> S] : \A i, j \in 1..Cardinality(S) : q[i] = q[j] => i = j}

\* mutation of getInvalidNodes: the membership test is dropped
getInvalidNodesAll(nodes, active) == DOMAIN nodes

\* the services whose instance is not a key of activeNodes
getInvalidNodes(nodes, active) ==
    {s \in DOMAIN nodes : nodes[s].instance \notin active}

\* mutation of AbortsTick: the error of getActiveNodes is ignored
AbortsTickNever(err) == FALSE

\* `if err != nil { ...; continue }` after getActiveNodes
AbortsTick(err) == err

\* 0.13 and 0.19 call sleepLoop() before that continue, 0.10 does not
SleepsOnAbort == version # "0.10"

\* ActiveEnterTimestamp values systemd may report: the unit became active
\* one sleep ago (recent) or MaxHostAge sleeps ago (old)
HostTimes == {clock - interval, clock - MaxHostAge * interval}

\* mutation of TimestampAfterQuery: the returned value is stored whatever err is
TimestampAfterQueryAlways(err, reported, stored) == reported

\* `if err == nil { localNodes[service]["lastRestartTimestamp"] = serviceActiveEnterTimestamp }`
TimestampAfterQuery(err, reported, stored) == IF err THEN stored ELSE reported

\* mutation of ExclusionPassed: >= for >
ExclusionPassedInclusive(n, last, period) == n - last >= period

\* `now - lastRestartTimestamp > period`
ExclusionPassed(n, last, period) == n - last > period

\* `if clusterRoutingAllocation == "" { ...; continue }`, absent from 0.10
EmptyAllocationSkips(alloc) == version # "0.10" /\ alloc = StrEmpty

\* mutation of RestartAllowed: the allocation test is dropped
RestartAllowedAnyAllocation(status, alloc) == ToLower(status) # StrRed

\* `strings.ToLower(clusterStatus) != "red" && strings.ToLower(clusterRoutingAllocation) == "all"`
RestartAllowed(status, alloc) == ToLower(status) # StrRed /\ ToLower(alloc) = StrAll

\* mutation of DryRunSkips: the flag is not consulted
DryRunIgnored == FALSE

\* `if *dryRun { slog.Info("Dry run, skipping") } else { restart }`
DryRunSkips == dryRun

\* what the iteration does once both fetches have succeeded
Decide(status, alloc) ==
    IF EmptyAllocationSkips(alloc) THEN "allocEmpty"
    ELSE IF RestartAllowed(status, alloc)
         THEN (IF DryRunSkips THEN "dryRun" ELSE "restart")
         ELSE "blocked"

\* mutation of TimestampAfterRestart: the timestamp is not written at all
TimestampAfterRestartNever(ok, n, stored) == stored

\* mutation of TimestampAfterRestart: the timestamp is written whatever err is
TimestampAfterRestartAlways(ok, n, stored) == n

\* `if err == nil { localNodes[service]["lastRestartTimestamp"] = now }`
TimestampAfterRestart(ok, n, stored) == IF ok THEN n ELSE stored

\* mutation of SetTimestamp: the entry is replaced and its instance is lost
SetTimestampDropInstance(nodes, s, t) ==
    [nodes EXCEPT ![s] = [instance |-> "", lastRestartTimestamp |-> t]]

\* mutation of SetTimestamp: the timestamp is kept by instance, not by service
SetTimestampByInstance(nodes, s, t) ==
    [r \in DOMAIN nodes |->
        IF nodes[r].instance = nodes[s].instance
        THEN [nodes[r] EXCEPT !.lastRestartTimestamp = t]
        ELSE nodes[r]]

\* localNodes[service]["lastRestartTimestamp"] = t
SetTimestamp(nodes, s, t) == [nodes EXCEPT ![s].lastRestartTimestamp = t]

\* mutation of AfterSkip: the process exits on the error
AfterSkipExit == "exit"

\* mutation of AfterSkip: `break` for `continue`, the rest of the tick is dropped
AfterSkipBreak == "sleepLoop"

\* `continue` of the range loop after a failed fetch: on to the next service
AfterSkip == "range"

\* mutation of IterationLocal: the locals live across iterations and ticks
IterationLocalKept(old, fresh) == old

\* clusterStatus, clusterRoutingAllocation, now and err are declared with :=
\* inside the loop body: every iteration starts with new ones
IterationLocal(old, fresh) == fresh

----------------------------------------------------------------------------
(* HTTP *)

\* status codes of the responses tried; 0 stands for no response at all
\* (connection refused, timeout)
HttpCodes == {200, 503}
NoResponse == [code |-> 0, wellFormed |-> FALSE]

\* the responses to a GET whose well-formed bodies decode to the values of S
Responses(S) ==
    {NoResponse}
      \cup {[code |-> c, wellFormed |-> FALSE] : c \in HttpCodes}
      \cup {[code |-> c, wellFormed |-> TRUE, value |-> v] : c \in HttpCodes, v \in S}

\* esQueryGet of 0.10: errs != nil, then `resp.StatusCode != 200`
esQueryGet(resp) == IF resp.code = 0 \/ resp.code # 200 THEN "error" ELSE "body"

\* httpGet of 0.13 and 0.19: only the errors of client.Do and ReadAll; the
\* status code of the response is not looked at
httpGet(resp) == IF resp.code = 0 THEN "error" ELSE "body"

\* parseNodes, parseClusterStatus, parseClusterSettings: json.Unmarshal
parseJSON(resp) == IF resp.wellFormed THEN "value" ELSE "error"

\* getActiveNodes, getClusterStatus, getClusterRoutingAllocation: err != nil
FetchFails(resp) ==
    \/ (IF version = "0.10" THEN esQueryGet(resp) ELSE httpGet(resp)) = "error"
    \/ parseJSON(resp) = "error"

----------------------------------------------------------------------------
(* The loop of nodeKeeper *)

\* activeNodes, err := getActiveNodes(esUrl); invalidNodes := getInvalidNodes(...)
GetActiveNodes ==
    /\ pc = "getActiveNodes"
    /\ \E resp \in Responses(SUBSET Instances) :
         LET err == FetchFails(resp)
             result == IF err THEN {} ELSE resp.value IN
         /\ activeNodes' = result
         /\ fetchOk' = ~err
         /\ usedCode' = IF err THEN 0 ELSE resp.code
         /\ IF AbortsTick(err)
            THEN /\ invalidNodes' = <<>>
                 /\ pc' = IF SleepsOnAbort THEN "sleepLoop" ELSE "getActiveNodes"
            ELSE \E order \in Orderings(getInvalidNodes(localNodes, result)) :
                 /\ invalidNodes' = order
                 /\ pc' = IF Len(order) > 0 THEN "range" ELSE "sleepLoop"
    /\ idx' = 0
    /\ service' = ""
    /\ now' = 0
    /\ tsErr' = FALSE
    /\ clusterStatus' = Unset
    /\ clusterRoutingAllocation' = Unset
    /\ outcomes' = [s \in Services |-> "none"]
    /\ queried' = [s \in Services |-> FALSE]
    /\ sinceFetch' = "fetched"
    /\ prevFailed' = {s \in Services : /\ outcomes[s] = "restartFailed"
                                          /\ \E i \in DOMAIN invalidNodes' : invalidNodes'[i] = s}
    /\ UNCHANGED <<flags, localNodes, clock, lastOk>>

\* for _, service := range invalidNodes
Range ==
    /\ pc = "range"
    /\ IF idx < Len(invalidNodes)
       THEN /\ idx' = idx + 1
            /\ service' = invalidNodes[idx + 1]
            /\ pc' = IF version = "0.19" THEN "getTimestamp" ELSE "checkExclusion"
       ELSE /\ pc' = "sleepLoop"
            /\ UNCHANGED <<idx, service>>
    /\ now' = IterationLocal(now, 0)
    /\ tsErr' = IterationLocal(tsErr, FALSE)
    /\ clusterStatus' = IterationLocal(clusterStatus, Unset)
    /\ clusterRoutingAllocation' = IterationLocal(clusterRoutingAllocation, Unset)
    /\ usedCode' = 0
    /\ UNCHANGED <<flags, localNodes, activeNodes, invalidNodes, clock, fetchOk,
                   outcomes, queried, sinceFetch, lastOk, prevFailed>>

\* serviceActiveEnterTimestamp, err := getSystemdServiceActiveEnterTimestamp(systemdService)
GetSystemdServiceActiveEnterTimestamp ==
    /\ pc = "getTimestamp"
    /\ \E err \in BOOLEAN, reported \in HostTimes \cup {0} :
         /\ err <=> reported = 0
         /\ tsErr' = err
         /\ localNodes' = SetTimestamp(localNodes, service,
                TimestampAfterQuery(err, reported, localNodes[service].lastRestartTimestamp))
    /\ queried' = [queried EXCEPT ![service] = TRUE]
    /\ pc' = "checkExclusion"
    /\ UNCHANGED <<flags, activeNodes, invalidNodes, idx, service, now, clusterStatus,
                   clusterRoutingAllocation, clock, fetchOk, outcomes, sinceFetch,
                   usedCode, lastOk, prevFailed>>

\* now := int(time.Now().Unix()); if now - lastRestartTimestamp > period {...} else {...}
CheckExclusion ==
    /\ pc = "checkExclusion"
    /\ now' = clock
    /\ IF ExclusionPassed(clock, localNodes[service].lastRestartTimestamp, ExclusionPeriod)
       THEN /\ pc' = "getClusterStatus"
            /\ UNCHANGED <<outcomes, prevFailed>>
       ELSE /\ pc' = "range"
            /\ outcomes' = [outcomes EXCEPT ![service] = "suppressed"]
            /\ prevFailed' = prevFailed \ {service}
    /\ UNCHANGED <<flags, localNodes, activeNodes, invalidNodes, idx, service, tsErr,
                   clusterStatus, clusterRoutingAllocation, clock, fetchOk, queried,
                   sinceFetch, usedCode, lastOk>>

\* clusterStatus, err := getClusterStatus(esUrl)
GetClusterStatus ==
    /\ pc = "getClusterStatus"
    /\ \E resp \in Responses(StatusValues) :
         IF FetchFails(resp)
         THEN /\ pc' = AfterSkip
              /\ outcomes' = [outcomes EXCEPT ![service] = "statusError"]
              /\ usedCode' = 0
              /\ prevFailed' = prevFailed \ {service}
              /\ UNCHANGED clusterStatus
         ELSE /\ clusterStatus' = resp.value
              /\ usedCode' = resp.code
              /\ pc' = "getClusterRoutingAllocation"
              /\ UNCHANGED <<outcomes, prevFailed>>
    /\ UNCHANGED <<flags, localNodes, activeNodes, invalidNodes, idx, service, now, tsErr,
                   clusterRoutingAllocation, clock, fetchOk, queried, sinceFetch, lastOk>>

\* clusterRoutingAllocation, err := getClusterRoutingAllocation(esUrl), and the
\* checks up to the restart command
GetClusterRoutingAllocation ==
    /\ pc = "getClusterRoutingAllocation"
    /\ \E resp \in Responses(AllocationValues) :
         IF FetchFails(resp)
         THEN /\ pc' = AfterSkip
              /\ outcomes' = [outcomes EXCEPT ![service] = "allocationError"]
              /\ usedCode' = 0
              /\ prevFailed' = prevFailed \ {service}
              /\ UNCHANGED clusterRoutingAllocation
         ELSE /\ clusterRoutingAllocation' = resp.value
              /\ IF Decide(clusterStatus, resp.value) = "restart"
                 THEN /\ pc' = "restart"
                      /\ usedCode' = resp.code
                      /\ UNCHANGED <<outcomes, prevFailed>>
                 ELSE /\ pc' = "range"
                      /\ usedCode' = 0
                      /\ outcomes' = [outcomes EXCEPT ![service] =
                                         Decide(clusterStatus, resp.value)]
                      /\ prevFailed' = prevFailed \ {service}
    /\ UNCHANGED <<flags, localNodes, activeNodes, invalidNodes, idx, service, now, tsErr,
                   clusterStatus, clock, fetchOk, queried, sinceFetch, lastOk>>

\* if err := restartSystemdService(systemdService); err == nil {...} else {...}
RestartSystemdService ==
    /\ pc = "restart"
    /\ \E ok \in BOOLEAN :
         /\ localNodes' = SetTimestamp(localNodes, service,
                TimestampAfterRestart(ok, now, localNodes[service].lastRestartTimestamp))
         /\ outcomes' = [outcomes EXCEPT ![service] =
                            IF ok THEN "restarted" ELSE "restartFailed"]
         /\ lastOk' = IF ok THEN [lastOk EXCEPT ![service] = now] ELSE lastOk
    /\ pc' = "range"
    /\ prevFailed' = prevFailed \ {service}
    /\ usedCode' = 0
    /\ UNCHANGED <<flags, activeNodes, invalidNodes, idx, service, now, tsErr,
                   clusterStatus, clusterRoutingAllocation, clock, fetchOk, queried,
                   sinceFetch>>

\* time.Sleep(time.Second * time.Duration(interval))
SleepLoop ==
    /\ pc = "sleepLoop"
    /\ clock < StartClock + MaxTicks * interval
    /\ clock' = clock + interval
    /\ pc' = "getActiveNodes"
    /\ sinceFetch' = "slept"
    /\ UNCHANGED <<flags, localNodes, activeNodes, invalidNodes, idx, service, now, tsErr,
                   clusterStatus, clusterRoutingAllocation, fetchOk, outcomes, queried,
                   usedCode, lastOk, prevFailed>>

Next ==
    \/ GetActiveNodes
    \/ Range
    \/ GetSystemdServiceActiveEnterTimestamp
    \/ CheckExclusion
    \/ GetClusterStatus
    \/ GetClusterRoutingAllocation
    \/ RestartSystemdService
    \/ SleepLoop

Spec == Init /\ [][Next]_vars

\* the goroutine is never denied the processor for ever: a step that can be
\* taken is taken (every blocking call returns)
FairSpec == Spec /\ WF_vars(Next)

TypeOK ==
    /\ version \in Versions
    /\ dryRun \in BOOLEAN
    /\ pc \in {"getActiveNodes", "range", "getTimestamp", "checkExclusion",
               "getClusterStatus", "getClusterRoutingAllocation", "restart", "sleepLoop"}
    /\ activeNodes \subseteq Instances
    /\ \A s \in Services : localNodes[s].lastRestartTimestamp \in 0..clock
    /\ clusterStatus \in StatusValues \cup {Unset}
    /\ clusterRoutingAllocation \in AllocationValues \cup {Unset}

----------------------------------------------------------------------------
(* Vocabulary of the properties *)

LastRestart(s) == localNodes[s].lastRestartTimestamp

\* the iteration of the range loop for `service` has just ended
IterationDone == pc = "range" /\ idx > 0

\* the restart command was executed for s in this tick
RestartInvoked(s) == outcomes[s] \in {"restarted", "restartFailed"}

\* both fetches of the iteration succeeded
BothFetched == clusterStatus \in StatusValues /\ clusterRoutingAllocation \in AllocationValues

----------------------------------------------------------------------------
(* C1: in every tick and for every service, the restart command is invoked
   only if the health fetched for it in that tick is not "red" and the
   allocation policy fetched for it in that tick, lower-cased, is "all";
   with health red or any other allocation value, the empty string
   included, the iteration ends without a restart invocation. *)
C1_RestartOnlyWhenSafe ==
    /\ (pc = "restart" \/ (IterationDone /\ RestartInvoked(service)))
          => /\ BothFetched
             /\ clusterStatus # StrRed
             /\ ToLower(clusterRoutingAllocation) = StrAll
    /\ (IterationDone /\ BothFetched
          /\ (clusterStatus = StrRed \/ ToLower(clusterRoutingAllocation) # StrAll))
          => outcomes[service] \in {"blocked", "allocEmpty"}

\* a restart went through with health yellow and allocation "All"
C1_Witness ==
    /\ IterationDone
    /\ outcomes[service] = "restarted"
    /\ clusterStatus = <<"y", "e", "l", "l", "o", "w">>
    /\ clusterRoutingAllocation = <<"A", "l", "l">>

(* C2: for every invalid service, if now - lastRestart is at most the
   exclusion period (the boundary included) no restart is invoked for it in
   that tick and no health or allocation fetch is made; once the gate is
   passed and health and allocation permit (dry-run off), the restart is
   invoked. *)
C2_ExclusionGate ==
    /\ pc \in {"getClusterStatus", "getClusterRoutingAllocation", "restart"}
          => now - LastRestart(service) > ExclusionPeriod
    /\ (IterationDone /\ outcomes[service] = "restartFailed")
          => now - LastRestart(service) > ExclusionPeriod
    /\ (IterationDone /\ outcomes[service] # "restarted"
          /\ now - LastRestart(service) <= ExclusionPeriod)
          => /\ outcomes[service] = "suppressed"
             /\ clusterStatus = Unset
             /\ clusterRoutingAllocation = Unset
    /\ (IterationDone /\ BothFetched /\ ~dryRun
          /\ ToLower(clusterStatus) # StrRed
          /\ ToLower(clusterRoutingAllocation) = StrAll)
          => RestartInvoked(service)

\* a service suppressed exactly at the boundary elapsed = exclusion period
C2_Witness ==
    /\ IterationDone
    /\ outcomes[service] = "suppressed"
    /\ now - LastRestart(service) = ExclusionPeriod

(* C3: any two successful restarts of the same service are separated by
   more than the exclusion period, also when the stored timestamp was
   overwritten in between with the host's last-activation time. *)
C3_RestartsSeparated ==
    [][\A s \in Services :
          (lastOk'[s] # lastOk[s] /\ lastOk[s] >= 0)
             => lastOk'[s] - lastOk[s] > ExclusionPeriod]_vars

(* C4: a service whose instance is in the active set fetched in the tick is
   not in invalidNodes, and in that tick it is never the loop's service, has
   no recency query and no outcome; a service whose instance is absent is in
   invalidNodes exactly once. *)
C4_OnlyInvalidEvaluated ==
    fetchOk =>
      \A s \in Services :
        IF localNodes[s].instance \in activeNodes
        THEN /\ \A i \in DOMAIN invalidNodes : invalidNodes[i] # s
             /\ outcomes[s] = "none"
             /\ ~queried[s]
             /\ idx > 0 => service # s
        ELSE Cardinality({i \in DOMAIN invalidNodes : invalidNodes[i] = s}) = 1

\* a tick ended with one service active and untouched and the other restarted
C4_Witness ==
    /\ fetchOk
    /\ pc = "sleepLoop"
    /\ \E s, r \in Services :
         /\ localNodes[s].instance \in activeNodes
         /\ outcomes[s] = "none"
         /\ localNodes[r].instance \notin activeNodes
         /\ outcomes[r] = "restarted"

(* C5, as claimed: with dry-run on, the restart command is never invoked and
   no stored timestamp ever differs from its value at startup (zero). *)
C5_DryRunFreezesTimestamps ==
    dryRun =>
      /\ pc # "restart"
      /\ \A s \in Services : ~RestartInvoked(s) /\ LastRestart(s) = 0

(* C5, amended: with dry-run on, the restart command is never invoked and no
   restart writes a timestamp; the registry changes only in the step that
   stores the host's last-activation time. *)
C5_DryRunNeverRestarts ==
    [][dryRun =>
          /\ pc' # "restart"
          /\ \A s \in Services : ~RestartInvoked(s)'
          /\ lastOk' = lastOk
          /\ localNodes' # localNodes => pc = "getTimestamp"]_vars

\* dry-run reported "would have restarted" for an invalid service past the gate
C5_Witness ==
    /\ dryRun
    /\ IterationDone
    /\ outcomes[service] = "dryRun"
    /\ ToLower(clusterRoutingAllocation) = StrAll

(* C6: the stored timestamp of every service never decreases, whichever
   step writes it. *)
C6_TimestampMonotonic ==
    [][\A s \in Services : LastRestart(s)' >= LastRestart(s)]_vars

(* C7: after a successful restart of s the stored timestamp is the time of
   the decision, and no restart is invoked for s at a later decision time
   within the exclusion period of it. *)
C7_SuppressedAfterRestart ==
    /\ (IterationDone /\ outcomes[service] = "restarted")
          => LastRestart(service) = now
    /\ (pc = "restart" /\ lastOk[service] >= 0)
          => now - lastOk[service] > ExclusionPeriod

(* C8: every step that ends in a tick whose active-instance fetch failed
   leaves the registry as it was, and in such a tick no service has a
   recency query, a fetch, an outcome or a restart. *)
C8_AbortedTickDoesNothing ==
    [][~fetchOk' =>
          /\ localNodes' = localNodes
          /\ lastOk' = lastOk
          /\ pc' \in {"getActiveNodes", "sleepLoop"}
          /\ invalidNodes' = <<>>
          /\ \A s \in Services : outcomes'[s] = "none" /\ ~queried'[s]]_vars

\* an aborted tick over a registry of two services, after a tick that ran
C8_Witness ==
    /\ ~fetchOk
    /\ pc = "sleepLoop"
    /\ clock > StartClock
    /\ Cardinality(Services) = 2

(* C9: the active-instance fetch is never begun right after another
   active-instance fetch: a sleep lies between them. *)
C9_SleepBetweenFetches ==
    pc = "getActiveNodes" => sinceFetch # "fetched"

(* C10: a failed restart leaves the registry, the timestamp of the service
   included, exactly as it was before the attempt. *)
C10_FailedRestartKeepsTimestamp ==
    [][(pc = "restart" /\ outcomes'[service] = "restartFailed")
          => /\ localNodes' = localNodes
             /\ lastOk' = lastOk]_vars

\* a restart failed for a service restarted successfully in an earlier tick
C10_Witness ==
    /\ IterationDone
    /\ outcomes[service] = "restartFailed"
    /\ lastOk[service] >= 0
    /\ LastRestart(service) < now

(* C11: when the health fetch or the allocation fetch of an invalid service
   fails, that service is skipped (no restart, registry untouched) and the
   loop goes on: the next invalid service starts its own iteration with its
   own fetches still to be made. *)
C11_FetchErrorSkipsOneService ==
    [][/\ (pc \in {"getClusterStatus", "getClusterRoutingAllocation"}
             /\ outcomes'[service] \in {"statusError", "allocationError"})
          => /\ pc' = "range"
             /\ localNodes' = localNodes
             /\ lastOk' = lastOk
             /\ invalidNodes' = invalidNodes
             /\ idx' = idx
             /\ \A r \in Services \ {service} : outcomes'[r] = outcomes[r]
       /\ (pc = "range" /\ idx < Len(invalidNodes))
          => /\ service' = invalidNodes[idx + 1]
             /\ pc' \in {"getTimestamp", "checkExclusion"}
             /\ clusterStatus' = Unset
             /\ clusterRoutingAllocation' = Unset
             /\ outcomes'[service'] = "none"]_vars

\* in one tick the first service was skipped on a failed health fetch and the
\* second one was restarted
C11_Witness ==
    /\ pc = "sleepLoop"
    /\ Len(invalidNodes) = 2
    /\ outcomes[invalidNodes[1]] = "statusError"
    /\ outcomes[invalidNodes[2]] = "restarted"

(* C12: a tick whose active-instance fetch succeeds and in which the
   instance of every registered service is active (the empty registry
   included) changes no timestamp and makes no recency query, no health or
   allocation fetch and no restart; it only goes to sleep. *)
C12_AllActiveTickIsNoOp ==
    [][(fetchOk' /\ \A s \in Services : localNodes'[s].instance \in activeNodes')
          => /\ localNodes' = localNodes
             /\ lastOk' = lastOk
             /\ invalidNodes' = <<>>
             /\ pc' \in {"sleepLoop", "getActiveNodes"}
             /\ clusterStatus' = Unset
             /\ clusterRoutingAllocation' = Unset
             /\ \A s \in Services : outcomes'[s] = "none" /\ ~queried'[s]]_vars

\* an all-active tick over two services, one of them restarted in an earlier tick
C12_Witness ==
    /\ fetchOk
    /\ pc = "sleepLoop"
    /\ Cardinality(Services) = 2
    /\ \A s \in Services : localNodes[s].instance \in activeNodes
    /\ \E s \in Services : lastOk[s] >= 0 /\ LastRestart(s) = lastOk[s]

StrGreen == <<"g", "r", "e", "e", "n">>

\* Scenario B: a registry of one service, invalid in the tick, dry-run off
ScenarioB ==
    /\ Cardinality(Services) = 1
    /\ ~dryRun
    /\ fetchOk
    /\ Len(invalidNodes) = 1

\* what Scenario B promises once the service is past the exclusion check
ScenarioBRestart ==
    /\ pc = "restart" => outcomes[service] = "none"
    /\ pc = "sleepLoop" => idx = 1
    /\ (IterationDone /\ BothFetched /\ clusterStatus = StrGreen
          /\ clusterRoutingAllocation = StrAll)
          => RestartInvoked(service)
    /\ (IterationDone /\ outcomes[service] = "restarted")
          => LastRestart(service) = now /\ lastOk[service] = now

(* C13, as claimed: in the first tick of a registry of one service (loaded
   with timestamp zero, never restarted) whose instance is absent, with
   dry-run off, the service is not suppressed; with health "green" and
   allocation "all" the restart is invoked for it exactly once, and after a
   successful restart the stored timestamp is the decision time. *)
C13_ScenarioB ==
    (ScenarioB /\ clock = StartClock) =>
       /\ ScenarioBRestart
       /\ IterationDone => outcomes[service] # "suppressed"

(* C13, amended: in a tick of a registry of one service whose instance is
   absent, with dry-run off, the service is suppressed only if the timestamp
   the exclusion check reads (zero, or the host's last-activation time when
   the host query succeeded) is within the exclusion period of the decision
   time; otherwise, with health "green" and allocation "all", the restart is
   invoked for it exactly once, and after a successful restart the stored
   timestamp is the decision time. *)
C13_ScenarioBPastGate ==
    ScenarioB =>
       /\ ScenarioBRestart
       /\ (IterationDone /\ outcomes[service] = "suppressed")
             => now - LastRestart(service) <= ExclusionPeriod

\* Scenario B in the first tick: green, "all", restarted, timestamp = decision time
C13_Witness ==
    /\ ScenarioB
    /\ clock = StartClock
    /\ IterationDone
    /\ outcomes[service] = "restarted"
    /\ LastRestart(service) = now
    /\ clusterStatus = StrGreen
    /\ clusterRoutingAllocation = StrAll

(* C14, as claimed: every service is loaded with timestamp zero, and a
   service whose stored timestamp is still zero when the exclusion check is
   made passes it, whatever the exclusion period. *)
C14_ZeroAlwaysEligible ==
    [][/\ sinceFetch = "start" => \A s \in Services : LastRestart(s) = 0
       /\ (pc = "checkExclusion" /\ LastRestart(service) = 0)
             => pc' = "getClusterStatus"]_vars

(* C14, amended: every service is loaded with timestamp zero, and a service
   whose stored timestamp is still zero when the exclusion check is made
   passes it for every exclusion period smaller than the decision time. *)
C14_ZeroEligibleBelowNow ==
    [][/\ sinceFetch = "start" => \A s \in Services : LastRestart(s) = 0
       /\ (pc = "checkExclusion" /\ LastRestart(service) = 0
             /\ ExclusionPeriod < clock)
             => /\ pc' = "getClusterStatus"
                /\ outcomes'[service] = "none"]_vars

\* 0.19: the host query failed, the gate read the zero of the load and passed
C14_Witness ==
    /\ version = "0.19"
    /\ pc = "getClusterStatus"
    /\ tsErr
    /\ LastRestart(service) = 0
    /\ lastOk[service] = -1

\* the last sleep the model follows has been reached
Horizon == pc = "sleepLoop" /\ clock = StartClock + MaxTicks * interval

(* C15: provided every blocking call returns, whatever the queries and the
   restart command answer, the loop always comes back to the
   active-instance fetch of a next tick (up to the last sleep the model
   follows): no outcome leaves it in a terminal state or inside a tick for
   ever. *)
C15_LoopNeverStops == []<>(pc = "getActiveNodes" \/ Horizon)

\* a next tick begins after a tick with a failed health fetch and a failed restart
C15_Witness ==
    /\ pc = "getActiveNodes"
    /\ sinceFetch = "slept"
    /\ \E s, r \in Services : outcomes[s] = "statusError" /\ outcomes[r] = "restartFailed"

(* C16: a response to the active-instance, health or allocation query
   whose status is not 2xx is reported as an error (tick aborted, service
   skipped): no fetch ever takes its result from the body of such a
   response. *)
C16_NonOkResponseIsError ==
    usedCode # 0 => usedCode \in 200..299

(* C17: when the host's last-activation query of an invalid service fails,
   the registry is left as it was and the iteration goes on to the
   exclusion check of the same service, which is made on the timestamp
   held in memory; the fetches and the restart can follow in the same
   tick. *)
C17_FailedQueryFallsBack ==
    [][/\ (pc = "getTimestamp" /\ tsErr')
             => /\ localNodes' = localNodes
                /\ lastOk' = lastOk
                /\ outcomes' = outcomes
                /\ service' = service
                /\ pc' = "checkExclusion"
       /\ (pc = "checkExclusion" /\ tsErr)
             => /\ localNodes' = localNodes
                /\ pc' = "getClusterStatus"
                      <=> clock - LastRestart(service) > ExclusionPeriod]_vars

\* in a tick after the first the query failed and the service was restarted
\* in the same iteration
C17_Witness ==
    /\ IterationDone
    /\ tsErr
    /\ queried[service]
    /\ outcomes[service] = "restarted"
    /\ clock > StartClock

(* C18: health and allocation are never cached: every iteration starts
   without them, the health fetch is made only once the exclusion check of
   the service has passed, the allocation fetch only after the health fetch
   of the same iteration, and the restart is invoked only in the step that
   fetched the allocation, on the two values fetched in this iteration for
   this service. *)
C18_FetchedFreshPerDecision ==
    [][/\ (pc = "range" /\ pc' # "sleepLoop")
             => clusterStatus' = Unset /\ clusterRoutingAllocation' = Unset
       /\ pc' = "getClusterStatus"
             => /\ pc = "checkExclusion"
                /\ now' - LastRestart(service) > ExclusionPeriod
                /\ clusterStatus' = Unset /\ clusterRoutingAllocation' = Unset
       /\ pc' = "getClusterRoutingAllocation"
             => /\ pc = "getClusterStatus"
                /\ service' = service
                /\ clusterStatus = Unset /\ clusterStatus' \in StatusValues
                /\ clusterRoutingAllocation' = Unset
       /\ pc' = "restart"
             => /\ pc = "getClusterRoutingAllocation"
                /\ service' = service
                /\ clusterStatus' = clusterStatus /\ clusterStatus \in StatusValues
                /\ clusterRoutingAllocation = Unset
                /\ clusterRoutingAllocation' \in AllocationValues
                /\ RestartAllowed(clusterStatus', clusterRoutingAllocation')]_vars

\* the second service of a tick reaches the restart although the values
\* fetched for the first one forbade it
C18_Witness ==
    /\ pc = "restart"
    /\ idx = 2
    /\ outcomes[invalidNodes[1]] = "blocked"

\* the other services that declare the instance of s
SameInstance(s) ==
    {r \in Services \ {s} : localNodes[r].instance = localNodes[s].instance}

(* C19: services that declare the same instance are evaluated
   independently: when the instance is absent from the fetched active set
   each of them is in invalidNodes; a step of the iteration of one service
   changes neither the timestamp nor the outcome of the others; the
   exclusion check of a service reads its own timestamp; and whatever the
   iteration of one service ended with, the next invalid service gets its
   own iteration. *)
C19_SameInstanceIndependent ==
    [][/\ (pc = "getActiveNodes" /\ fetchOk')
             => \A s \in Services :
                   localNodes[s].instance \notin activeNodes'
                      => \A r \in SameInstance(s) \cup {s} :
                            \E i \in DOMAIN invalidNodes' : invalidNodes'[i] = r
       /\ pc \in {"getTimestamp", "checkExclusion", "getClusterStatus",
                  "getClusterRoutingAllocation", "restart"}
             => \A r \in SameInstance(service) :
                   /\ localNodes'[r] = localNodes[r]
                   /\ lastOk'[r] = lastOk[r]
                   /\ outcomes'[r] = outcomes[r]
                   /\ queried'[r] = queried[r]
       /\ pc = "checkExclusion"
             => (pc' = "getClusterStatus"
                   <=> clock - LastRestart(service) > ExclusionPeriod)
       /\ (pc = "range" /\ idx < Len(invalidNodes))
             => /\ service' = invalidNodes[idx + 1]
                /\ pc' \in {"getTimestamp", "checkExclusion"}]_vars

\* two services of the same instance in one tick: the first was restarted,
\* the second suppressed by its own timestamp
C19_Witness ==
    /\ IterationDone
    /\ idx = 2
    /\ invalidNodes[1] \in SameInstance(invalidNodes[2])
    /\ outcomes[invalidNodes[1]] = "restarted"
    /\ outcomes[invalidNodes[2]] = "suppressed"

\* the per-service steps of the tick are over for every invalid service
TickComplete ==
    /\ idx = Len(invalidNodes)
    /\ \A i \in DOMAIN invalidNodes : outcomes[invalidNodes[i]] # "none"

(* C20: one task runs the loop and ticks do not overlap: the sleep, and
   after it the next active-instance fetch, is reached only when every
   per-service step of the tick is over; within a tick the services are
   taken one after another (those before the loop's service are done, those
   after it untouched), and a step writes the registry entry of the loop's
   service only. *)
C20_TicksDoNotOverlap ==
    [][/\ pc' = "sleepLoop" => TickComplete'
       /\ (pc' = "getActiveNodes" /\ pc # "getActiveNodes")
             => pc = "sleepLoop" /\ TickComplete
       /\ \A i \in DOMAIN invalidNodes' :
             /\ i < idx' => outcomes'[invalidNodes'[i]] # "none"
             /\ i > idx' => /\ outcomes'[invalidNodes'[i]] = "none"
                            /\ ~queried'[invalidNodes'[i]]
                            /\ localNodes'[invalidNodes'[i]] = localNodes[invalidNodes'[i]]
       /\ \A s \in Services :
             localNodes'[s] # localNodes[s]
                => s = service /\ pc \in {"getTimestamp", "restart"}]_vars

\* the next tick is about to begin after a tick that restarted two services
C20_Witness ==
    /\ pc = "getActiveNodes"
    /\ sinceFetch = "slept"
    /\ Len(invalidNodes) = 2
    /\ \A i \in DOMAIN invalidNodes : outcomes[invalidNodes[i]] = "restarted"

(* C21: there is no backoff after a failed restart: a service whose restart
   failed in the previous tick and whose stored timestamp has not changed
   since passes the exclusion check again, and with health not red and
   allocation "all" fetched for it the restart command is invoked for it
   again. *)
C21_FailedRestartIsRetried ==
    [][/\ (pc = "getTimestamp" /\ service \in prevFailed /\ localNodes' = localNodes)
             => ExclusionPassed(clock, LastRestart(service), ExclusionPeriod)
       /\ (pc = "checkExclusion"
             /\ \/ service \in prevFailed /\ version # "0.19"
                \/ ExclusionPassed(clock, LastRestart(service), ExclusionPeriod))
             => pc' = "getClusterStatus"
       /\ (pc = "getClusterRoutingAllocation" /\ service \in prevFailed
             /\ clusterRoutingAllocation' \in AllocationValues
             /\ ToLower(clusterStatus) # StrRed
             /\ ToLower(clusterRoutingAllocation') = StrAll)
             => pc' = "restart"
       /\ (pc = "restart" /\ service \in prevFailed)
             => RestartInvoked(service)']_vars

\* the restart command is invoked for a service whose restart failed in the
\* previous tick; the host query of this tick failed, the timestamp is as it was
C21_Witness ==
    /\ pc = "restart"
    /\ service \in prevFailed
    /\ version = "0.19" => tsErr

(* C22: a step changes the registry only in the stored timestamp of the
   loop's service, which is invalid in the tick, and only when the host's
   last-activation query or the restart succeeded; the set of services and
   the instance of every service never change, and the timestamp of a
   service whose instance is active in the tick is left alone. *)
C22_RegistryFrame ==
    [][/\ DOMAIN localNodes' = DOMAIN localNodes
       /\ \A s \in Services :
             /\ localNodes'[s].instance = localNodes[s].instance
             /\ LastRestart(s)' # LastRestart(s)
                   => /\ s = service
                      /\ fetchOk
                      /\ localNodes[s].instance \notin activeNodes
                      /\ \E i \in DOMAIN invalidNodes : invalidNodes[i] = s
                      /\ \/ pc = "getTimestamp" /\ ~tsErr'
                         \/ pc = "restart" /\ outcomes'[s] = "restarted"]_vars

\* a service restarted in an earlier tick is active in this tick and keeps
\* its timestamp while another service is restarted
C22_Witness ==
    /\ IterationDone
    /\ outcomes[service] = "restarted"
    /\ \E s \in Services \ {service} :
          /\ localNodes[s].instance \in activeNodes
          /\ lastOk[s] >= 0
          /\ LastRestart(s) = lastOk[s]
          /\ LastRestart(s) < now

====
